---------------------------- MODULE Spec2Model ----------------------------
(***************************************************************************)
(* pixprint: half-block terminal rendering of raster images.               *)
(*                                                                         *)
(* The module models src/src/main.rs: the padding parser (parse_padding),  *)
(* the pixel classifier (pixel_to_cell_color), the cell renderer (draw),   *)
(* the scaler (scale_image) and the batch loop of main.  Each component    *)
(* has its own specification over the shared variables:                    *)
(*   SpecPad    parse_padding applied to a command-line string             *)
(*   SpecDraw   draw, one step per cell of the output grid                 *)
(*   SpecScale  scale_image                                                *)
(*   SpecMain   main: decode all paths, render, report errors              *)
(*                                                                         *)
(* Strings are sequences of one-character strings.  A u32 that may be as   *)
(* large as u32::MAX is a pair of 16-bit limbs [hi, lo].                   *)
(***************************************************************************)
EXTENDS Integers, Sequences, FiniteSets, TLC

VARIABLES
    pc,           \* position of the modelled function
    padding_arg,  \* parse_padding: the string handed over by the CLI
    pad_tokens,   \* the tokens padding_arg was written from (ground truth)
    pad_result,   \* parse_padding: Result<(u32,u32,u32,u32), String>
    img,          \* draw / scale_image: the decoded image
    padding,      \* draw: Option<(u32,u32,u32,u32)>
    buffer,       \* draw: hanbun::Buffer (width and cells)
    cur,          \* draw: loop position (x, y)
    sampled,      \* draw: top_pixel / bot_pixel looked up for each cell
    writes,       \* draw: number of stores into each index of buffer.cells
    fault,        \* draw: arithmetic underflow or out-of-range index seen
    scale,        \* scale_image / main: the scale factor
    scaled,       \* scale_image: the image returned
    paths,        \* main: cli.images
    images,       \* main: decoded images not yet consumed by the render loop
    errors,       \* main: errors not yet printed
    next_path,    \* main: index of the next path the partition pulls
    events,       \* main: decode / render / release steps in program order
    stdout        \* main: what has been printed

vars == << pc, padding_arg, pad_tokens, pad_result, img, padding, buffer, cur,
           sampled, writes, fault, scale, scaled, paths, images, errors,
           next_path, events, stdout >>

padVars   == << padding_arg, pad_tokens, pad_result >>
drawVars  == << img, padding, buffer, cur, sampled, writes, fault >>
scaleVars == << scale, scaled >>
mainVars  == << paths, images, errors, next_path, events, stdout >>

None == [some |-> FALSE]
Some(v) == [some |-> TRUE, val |-> v]

Ok(v) == [ok |-> TRUE, val |-> v]
Err(e) == [ok |-> FALSE, err |-> e]

Min(a, b) == IF a <= b THEN a ELSE b
Max(a, b) == IF a >= b THEN a ELSE b

(***************************************************************************)
(* u32 as two 16-bit limbs.                                                *)
(***************************************************************************)
LimbBase == 65536

U32(h, l) == [hi |-> h, lo |-> l]

U32Max == U32(LimbBase - 1, LimbBase - 1)

DigitChars == << "0", "1", "2", "3", "4", "5", "6", "7", "8", "9" >>

IsDigit(c) == \E d \in 1..10 : DigitChars[d] = c

DigitVal(c) == (CHOOSE d \in 1..10 : DigitChars[d] = c) - 1

\* checked_mul(10) followed by checked_add(d): None on overflow of 32 bits.
MulAdd10(v, d) ==
    LET lo10 == v.lo * 10 + d
        hi10 == v.hi * 10 + (lo10 \div LimbBase)
    IN  IF hi10 >= LimbBase THEN None
        ELSE Some(U32(hi10, lo10 % LimbBase))

RECURSIVE ParseDigits(_, _)
\* The digit loop of u32::from_str: acc is the value of the digits consumed.
ParseDigits(digits, acc) ==
    IF digits = << >> THEN Some(acc)
    ELSE IF ~IsDigit(Head(digits)) THEN None
    ELSE LET step == MulAdd10(acc, DigitVal(Head(digits)))
         IN  IF ~step.some THEN None
             ELSE ParseDigits(Tail(digits), step.val)

\* u32::from_str: an optional leading '+', then at least one decimal digit;
\* a '-' is not accepted for an unsigned type.
u32_from_str(src) ==
    IF src = << >> THEN None
    ELSE IF Head(src) = "+" THEN
        IF Tail(src) = << >> THEN None
        ELSE ParseDigits(Tail(src), U32(0, 0))
    ELSE ParseDigits(src, U32(0, 0))

(***************************************************************************)
(* parse_padding                                                           *)
(***************************************************************************)
WhiteSpace == { " ", "\t", "\n" }

RECURSIVE SplitFrom(_, _, _)
\* str::split_whitespace: the maximal runs of non-whitespace characters.
\* word is the run being read, acc the runs already complete.
SplitFrom(s, word, acc) ==
    IF s = << >> THEN
        IF word = << >> THEN acc ELSE Append(acc, word)
    ELSE IF Head(s) \in WhiteSpace THEN
        SplitFrom(Tail(s), << >>, IF word = << >> THEN acc ELSE Append(acc, word))
    ELSE SplitFrom(Tail(s), Append(word, Head(s)), acc)

split_whitespace(s) == SplitFrom(s, << >>, << >>)

InvalidInputPrefix ==
    << "I", "n", "v", "a", "l", "i", "d", " ", "i", "n", "p", "u", "t", ":", " " >>

InvalidNumberOfValues ==
    << "I", "n", "v", "a", "l", "i", "d", " ", "n", "u", "m", "b", "e", "r",
       " ", "o", "f", " ", "v", "a", "l", "u", "e", "s" >>

\* format!("Invalid input: {}", padding)
InvalidInput(s) == InvalidInputPrefix \o s

\* The match on values.len(): the CSS shorthand expansion.
expand_3_swapped(values) ==
    IF Len(values) = 1 THEN
        Ok(<< values[1], values[1], values[1], values[1] >>)
    ELSE IF Len(values) = 2 THEN
        Ok(<< values[1], values[2], values[1], values[2] >>)
    ELSE IF Len(values) = 3 THEN
        Ok(<< values[1], values[2], values[3], values[1] >>)
    ELSE IF Len(values) = 4 THEN
        Ok(<< values[1], values[2], values[3], values[4] >>)
    ELSE Err(InvalidNumberOfValues)

expand(values) ==
    IF Len(values) = 1 THEN
        Ok(<< values[1], values[1], values[1], values[1] >>)
    ELSE IF Len(values) = 2 THEN
        Ok(<< values[1], values[2], values[1], values[2] >>)
    ELSE IF Len(values) = 3 THEN
        Ok(<< values[1], values[2], values[3], values[2] >>)
    ELSE IF Len(values) = 4 THEN
        Ok(<< values[1], values[2], values[3], values[4] >>)
    ELSE Err(InvalidNumberOfValues)

\* parse_padding with the arity match ahead of the token conversion.
parse_padding_arity_first(s) ==
    LET parts  == split_whitespace(s)
        parsed == [k \in 1..Len(parts) |-> u32_from_str(parts[k])]
    IN  IF Len(parts) \notin 1..4 THEN Err(InvalidNumberOfValues)
        ELSE IF \E k \in 1..Len(parts) : ~parsed[k].some THEN Err(InvalidInput(s))
        ELSE expand([k \in 1..Len(parts) |-> parsed[k].val])

parse_padding(s) ==
    LET parts  == split_whitespace(s)
        parsed == [k \in 1..Len(parts) |-> u32_from_str(parts[k])]
    IN  IF \E k \in 1..Len(parts) : ~parsed[k].some THEN Err(InvalidInput(s))
        ELSE expand([k \in 1..Len(parts) |-> parsed[k].val])

(***************************************************************************)
(* Inputs of parse_padding: strings written from a list of tokens and a    *)
(* whitespace layout.                                                      *)
(***************************************************************************)
MaxTokens == 5

DivMod10(v) ==
    LET t == (v.hi % 10) * LimbBase + v.lo
    IN  [quot |-> U32(v.hi \div 10, t \div 10), rem |-> t % 10]

RECURSIVE Decimal(_)
\* The decimal digits of a u32, most significant first, no leading zero.
Decimal(v) ==
    LET dm == DivMod10(v)
    IN  IF dm.quot = U32(0, 0) THEN << DigitChars[dm.rem + 1] >>
        ELSE Append(Decimal(dm.quot), DigitChars[dm.rem + 1])

PadNumbers == { U32(0, 0), U32(0, 42), U32Max }

\* kind: how the token is written; integer: it denotes a non-negative
\* integer; valid: that integer is at most u32::MAX; val: the integer.
DecimalTokens ==
    { [text |-> Decimal(n), kind |-> "decimal", integer |-> TRUE,
       valid |-> TRUE, val |-> n] : n \in PadNumbers }

OtherTokens ==
    { [text |-> << "+", "7" >>, kind |-> "plus", integer |-> TRUE,
       valid |-> TRUE, val |-> U32(0, 7)],
      [text |-> [Decimal(U32Max) EXCEPT ![10] = "6"], kind |-> "decimal",
       integer |-> TRUE, valid |-> FALSE, val |-> U32(0, 0)],
      [text |-> << "x" >>, kind |-> "word", integer |-> FALSE,
       valid |-> FALSE, val |-> U32(0, 0)],
      [text |-> << "-", "1" >>, kind |-> "minus", integer |-> FALSE,
       valid |-> FALSE, val |-> U32(0, 0)] }

Tokens == DecimalTokens \cup OtherTokens

Layouts ==
    { [lead |-> << >>, sep |-> << " " >>, trail |-> << >>],
      [lead |-> << " " >>, sep |-> << " ", "\t", " " >>, trail |-> << "\n" >>] }

RECURSIVE Write(_, _)
Write(toks, sep) ==
    IF toks = << >> THEN << >>
    ELSE IF Len(toks) = 1 THEN toks[1].text
    ELSE toks[1].text \o sep \o Write(Tail(toks), sep)

TokenLists == UNION { [1..n -> Tokens] : n \in 0..MaxTokens }

IdlePad == /\ padding_arg = << >>
           /\ pad_tokens = << >>
           /\ pad_result = None

IdleDraw == /\ img = None
            /\ padding = None
            /\ buffer = None
            /\ cur = << 0, 0 >>
            /\ sampled = << >>
            /\ writes = << >>
            /\ fault = FALSE

IdleScale == /\ scale = None
             /\ scaled = None

IdleMain == /\ paths = << >>
            /\ images = << >>
            /\ errors = << >>
            /\ next_path = 1
            /\ events = << >>
            /\ stdout = << >>

InitPad ==
    /\ pc = "parse_padding"
    /\ \E toks \in TokenLists, lay \in Layouts :
          /\ pad_tokens = toks
          /\ padding_arg = lay.lead \o Write(toks, lay.sep) \o lay.trail
    /\ pad_result = None
    /\ IdleDraw /\ IdleScale /\ IdleMain

\* clap calls the value parser once on the argument of --padding.
ParsePadding ==
    /\ pc = "parse_padding"
    /\ pad_result' = parse_padding(padding_arg)
    /\ pc' = "padding_parsed"
    /\ UNCHANGED << padding_arg, pad_tokens, drawVars, scaleVars, mainVars >>

NextPad == ParsePadding

SpecPad == InitPad /\ [][NextPad]_vars

(***************************************************************************)
(* Claims about parse_padding                                              *)
(***************************************************************************)
TokenVals == [k \in 1..Len(pad_tokens) |-> pad_tokens[k].val]

AllDecimalU32 ==
    \A k \in 1..Len(pad_tokens) :
        pad_tokens[k].kind = "decimal" /\ pad_tokens[k].valid

AllValid == \A k \in 1..Len(pad_tokens) : pad_tokens[k].valid

\* C2: whitespace-separated decimal tokens a, b, c, d in the u32 range parse
\* to the CSS expansion (top, right, bottom, left): "a" -> (a,a,a,a),
\* "a b" -> (a,b,a,b), "a b c" -> (a,b,c,b), "a b c d" -> (a,b,c,d),
\* whatever the whitespace between and around the tokens.
C2_CssExpansion ==
    (pc = "padding_parsed" /\ AllDecimalU32) =>
        LET v == TokenVals
        IN  /\ Len(v) = 1 => pad_result = Ok(<< v[1], v[1], v[1], v[1] >>)
            /\ Len(v) = 2 => pad_result = Ok(<< v[1], v[2], v[1], v[2] >>)
            /\ Len(v) = 3 => pad_result = Ok(<< v[1], v[2], v[3], v[2] >>)
            /\ Len(v) = 4 => pad_result = Ok(<< v[1], v[2], v[3], v[4] >>)

\* Three distinct values, the largest u32 among them, written with leading,
\* repeated and trailing whitespace, have been parsed.
C2_Witness ==
    /\ pc = "padding_parsed"
    /\ AllDecimalU32
    /\ Len(pad_tokens) = 3
    /\ TokenVals = << U32(0, 42), U32Max, U32(0, 0) >>
    /\ Head(padding_arg) = " "
    /\ pad_result = Ok(<< U32(0, 42), U32Max, U32(0, 0), U32Max >>)

\* C3 as stated: a token count outside 1..4 fails with InvalidArity whatever
\* the tokens are; 1 to 4 tokens with one that is no non-negative integer
\* fail with the ParseError naming the input.
C3_ArityWhateverTheTokens ==
    pc = "padding_parsed" =>
        /\ Len(pad_tokens) \notin 1..4 =>
              pad_result = Err(InvalidNumberOfValues)
        /\ (Len(pad_tokens) \in 1..4
              /\ \E k \in 1..Len(pad_tokens) : ~pad_tokens[k].integer) =>
              pad_result = Err(InvalidInput(padding_arg))

\* C3 amended: a token count outside 1..4 whose tokens are all valid u32
\* numbers fails with InvalidArity; any input, of any token count, with a
\* token that is not a valid u32 (not a non-negative integer, or above
\* u32::MAX) fails with the ParseError naming the input; no tuple in either
\* case.
C3_ParseErrorFirst ==
    pc = "padding_parsed" =>
        /\ (Len(pad_tokens) \notin 1..4 /\ AllValid) =>
              pad_result = Err(InvalidNumberOfValues)
        /\ ~AllValid => pad_result = Err(InvalidInput(padding_arg))

\* Five tokens, one of them not a number, have been parsed.
C3_Witness ==
    /\ pc = "padding_parsed"
    /\ Len(pad_tokens) = 5
    /\ \E k \in 1..5 : pad_tokens[k].kind = "word"
    /\ ~pad_result.ok
    /\ pad_result.err = InvalidInput(padding_arg)

(***************************************************************************)
(* Images.  A decoded image is its width, its height and its pixels; the   *)
(* pixel at (i, j) carries its own coordinates in its red and green        *)
(* channels, and the alpha channel runs through 255, 254 and 0.            *)
(***************************************************************************)
MaxDim == 4
MaxPad == 2

AlphaCycle == << 255, 254, 0 >>

Phases == { 0, 1 }

Pixel(image, i, j) ==
    [r |-> i, g |-> j, b |-> i + j,
     a |-> AlphaCycle[((i + j + image.phase) % 3) + 1]]

Images ==
    { [width |-> w, height |-> h, phase |-> ph] :
        w \in 1..MaxDim, h \in 1..MaxDim, ph \in Phases }

Paddings ==
    { None } \cup
    { Some(<< t, r, b, l >>) :
        t \in 0..MaxPad, r \in 0..MaxPad, b \in 0..MaxPad, l \in 0..MaxPad }

(***************************************************************************)
(* pixel_to_cell_color                                                     *)
(***************************************************************************)
Rgb(r, g, b) == [r |-> r, g |-> g, b |-> b]

\* pixel_opt is None or Some(reference to a pixel): [x, y, rgba].
pixel_to_cell_color(pixel_opt) ==
    IF ~pixel_opt.some THEN None
    ELSE LET p == pixel_opt.val.rgba
         IN  IF p.a = 255 THEN Some(Some(Rgb(p.r, p.g, p.b)))
             ELSE None

(***************************************************************************)
(* draw                                                                    *)
(***************************************************************************)
\* A u32 difference that wrapped around: larger than every coordinate here.
Wrapped == LimbBase * 32767

SubU32(a, b) == IF a >= b THEN a - b ELSE Wrapped

Top(p)    == p.val[1]
Right(p)  == p.val[2]
Bottom(p) == p.val[3]
Left(p)   == p.val[4]

\* width and height after lines 102-106.  The additions are u32 additions;
\* with sides up to MaxDim and paddings up to MaxPad no sum leaves the u32
\* range, so none wraps or panics here.
canvas_width(image, p) ==
    IF p.some THEN image.width + (Left(p) + Right(p)) ELSE image.width

canvas_height(image, p) ==
    IF p.some THEN image.height + (Top(p) + Bottom(p)) ELSE image.height

\* hanbun::Buffer::new(width, height, ' '): width * height blank cells.
BlankCell ==
    [char |-> Some(" "), char_color |-> None,
     upper_block |-> None, lower_block |-> None]

buffer_new(width, height) ==
    [width |-> width, cells |-> [k \in 1..(width * height) |-> BlankCell]]

\* The padding test of line 115 without its x < left disjunct.
in_padding_no_left(x, y, p, width, height) ==
    \/ y * 2 < Top(p)
    \/ y * 2 >= SubU32(height, Bottom(p))
    \/ x >= SubU32(width, Right(p))

\* The padding test of line 115 with y * 2 <= top.
in_padding_top_inclusive(x, y, p, width, height) ==
    \/ y * 2 <= Top(p)
    \/ y * 2 >= SubU32(height, Bottom(p))
    \/ x < Left(p)
    \/ x >= SubU32(width, Right(p))

in_padding(x, y, p, width, height) ==
    \/ y * 2 < Top(p)
    \/ y * 2 >= SubU32(height, Bottom(p))
    \/ x < Left(p)
    \/ x >= SubU32(width, Right(p))

\* A subtraction of the test is evaluated (the || chain reaches it) and
\* underflows.
test_underflows(x, y, p, width, height) ==
    \/ /\ ~(y * 2 < Top(p))
       /\ height < Bottom(p)
    \/ /\ ~(y * 2 < Top(p))
       /\ ~(y * 2 >= SubU32(height, Bottom(p)))
       /\ ~(x < Left(p))
       /\ width < Right(p)

\* A subtraction of lines 119-120 underflows.
lookup_underflows(x, y, p) ==
    \/ x < Left(p)
    \/ y * 2 < Top(p)
    \/ (y * 2) + 1 < Top(p)

\* ImageBuffer::get_pixel_checked: a reference to the pixel, or None
\* outside the image.
get_pixel_checked(image, px, py) ==
    IF px < image.width /\ py < image.height
    THEN Some([x |-> px, y |-> py, rgba |-> Pixel(image, px, py)])
    ELSE None

\* (top_pixel, bot_pixel) of lines 113-128.
pixel_pair(image, p, x, y, width, height) ==
    IF p.some THEN
        IF in_padding(x, y, p, width, height) THEN
            [top |-> None, bot |-> None]
        ELSE
            [top |-> get_pixel_checked(image, SubU32(x, Left(p)),
                                       SubU32(y * 2, Top(p))),
             bot |-> get_pixel_checked(image, SubU32(x, Left(p)),
                                       SubU32((y * 2) + 1, Top(p)))]
    ELSE
        [top |-> get_pixel_checked(image, x, y * 2),
         bot |-> get_pixel_checked(image, x, (y * 2) + 1)]

\* The subtractions evaluated for cell (x, y), one of them underflowing.
pair_underflows(image, p, x, y, width, height) ==
    /\ p.some
    /\ \/ test_underflows(x, y, p, width, height)
       \/ /\ ~in_padding(x, y, p, width, height)
          /\ lookup_underflows(x, y, p)

\* Index of cell (x, y) in buffer.cells (line 130), from 0.
cell_index_transposed(x, y, width) == (x * width) + y

cell_index(x, y, width) == (y * width) + x

InitDraw ==
    /\ pc = "draw"
    /\ img \in Images
    /\ padding \in Paddings
    /\ buffer = None
    /\ cur = << 0, 0 >>
    /\ sampled = << >>
    /\ writes = << >>
    /\ fault = FALSE
    /\ IdlePad /\ IdleScale /\ IdleMain

\* Lines 102-109: the canvas size and the blank buffer.
DrawBegin ==
    /\ pc = "draw"
    /\ LET width  == canvas_width(img, padding)
           height == canvas_height(img, padding)
           buf    == buffer_new(width, height \div 2)
       IN  /\ buffer' = buf
           /\ sampled' = [k \in 1..Len(buf.cells) |-> None]
           /\ writes' = [k \in 1..Len(buf.cells) |-> 0]
    /\ cur' = << 0, 0 >>
    /\ pc' = "draw_loop"
    /\ UNCHANGED << img, padding, fault, padVars, scaleVars, mainVars >>

\* One iteration of the inner loop (lines 112-136) at cell cur = (x, y).
\* An underflowing subtraction panics in a debug build and wraps in a
\* release build; an index outside buffer.cells panics in both.
DrawCell ==
    /\ pc = "draw_loop"
    /\ LET width  == canvas_width(img, padding)
           height == canvas_height(img, padding)
           x      == cur[1]
           y      == cur[2]
           pair   == pixel_pair(img, padding, x, y, width, height)
           under  == pair_underflows(img, padding, x, y, width, height)
           idx    == cell_index(x, y, width) + 1
           cell   == [char |-> Some(" "), char_color |-> None,
                      upper_block |-> pixel_to_cell_color(pair.top),
                      lower_block |-> pixel_to_cell_color(pair.bot)]
       IN  /\ y < height \div 2
           /\ x < width
           /\ \E debug \in BOOLEAN :
                IF (under /\ debug) \/ idx \notin 1..Len(buffer.cells) THEN
                    /\ fault' = TRUE
                    /\ pc' = "panicked"
                    /\ UNCHANGED << buffer, sampled, writes, cur >>
                ELSE
                    /\ fault' = (fault \/ under)
                    /\ buffer' = [buffer EXCEPT !.cells[idx] = cell]
                    /\ sampled' = [sampled EXCEPT ![idx] =
                                      Some([x |-> x, y |-> y,
                                            top |-> pair.top, bot |-> pair.bot])]
                    /\ writes' = [writes EXCEPT ![idx] = @ + 1]
                    /\ cur' = IF x + 1 < width THEN << x + 1, y >>
                              ELSE << 0, y + 1 >>
                    /\ pc' = "draw_loop"
    /\ UNCHANGED << img, padding, padVars, scaleVars, mainVars >>

\* Line 139: the loops are over and the buffer goes to buffer.draw().
DrawPaint ==
    /\ pc = "draw_loop"
    /\ cur[2] >= canvas_height(img, padding) \div 2
    /\ pc' = "painted"
    /\ UNCHANGED << drawVars, padVars, scaleVars, mainVars >>

NextDraw == DrawBegin \/ DrawCell \/ DrawPaint

SpecDraw == InitDraw /\ [][NextDraw]_vars

(***************************************************************************)
(* Claims about draw and pixel_to_cell_color                               *)
(***************************************************************************)
PadT == IF padding.some THEN padding.val[1] ELSE 0
PadR == IF padding.some THEN padding.val[2] ELSE 0
PadB == IF padding.some THEN padding.val[3] ELSE 0
PadL == IF padding.some THEN padding.val[4] ELSE 0

Cols == img.width + PadL + PadR
LogicalHeight == img.height + PadT + PadB
Rows == LogicalHeight \div 2

Written == { k \in 1..Len(writes) : writes[k] > 0 }

\* The pixel of the image at (i, j), absent outside the image.
ImagePixel(i, j) ==
    IF i \in 0..(img.width - 1) /\ j \in 0..(img.height - 1)
    THEN Some([x |-> i, y |-> j, rgba |-> Pixel(img, i, j)])
    ELSE None

HalfClassified(px, blk) ==
    /\ ~px.some => blk = None
    /\ (px.some /\ px.val.rgba.a = 255) =>
          blk = Some(Some(Rgb(px.val.rgba.r, px.val.rgba.g, px.val.rgba.b)))
    /\ (px.some /\ px.val.rgba.a < 255) => blk = Some(None)

\* C1: pixel_to_cell_color is a three-state classifier: no pixel gives
\* outer-absent, a pixel with alpha 255 gives outer-present with its (r,g,b),
\* a pixel with alpha 0..254 gives outer-present inner-blank, distinct from
\* the result for no pixel.
C1_ThreeStates ==
    \A k \in Written :
        /\ HalfClassified(sampled[k].val.top, buffer.cells[k].upper_block)
        /\ HalfClassified(sampled[k].val.bot, buffer.cells[k].lower_block)

\* C4: the buffer has (W+l+r) columns and floor((H+t+b)/2) rows; every store
\* goes to index y*columns + x of its cell (x, y) inside the buffer, no index
\* is stored twice, and when the buffer is painted every index has been
\* stored exactly once.
C4_BufferFilledOnce ==
    pc \in { "draw_loop", "painted", "panicked" } =>
        /\ pc # "panicked"
        /\ ~fault
        /\ buffer.width = Cols
        /\ Len(buffer.cells) = Cols * Rows
        /\ \A k \in 1..Len(writes) :
              /\ writes[k] <= 1
              /\ writes[k] = 1 =>
                    /\ sampled[k].val.x \in 0..(Cols - 1)
                    /\ sampled[k].val.y \in 0..(Rows - 1)
                    /\ k - 1 = sampled[k].val.y * Cols + sampled[k].val.x
              /\ pc = "painted" => writes[k] = 1

\* A 3x3 image with padding (1,2,1,0), an odd logical height, is painted:
\* 5 columns by 2 rows, all stored.
C4_Witness ==
    /\ pc = "painted"
    /\ img.width = 3 /\ img.height = 3
    /\ padding = Some(<< 1, 2, 1, 0 >>)
    /\ Len(buffer.cells) = 10
    /\ \A k \in 1..10 : writes[k] = 1

\* C8: a cell (x, y) with 2y < t, 2y >= h-b, x < l or x >= w-r has both
\* halves absent; any other cell has the classification of image pixel
\* (x-l, 2y-t) above and of (x-l, 2y+1-t) below, a coordinate outside the
\* image giving an absent pixel; no subtraction underflows.
C8_CellMapping ==
    /\ ~fault
    /\ pc # "panicked"
    /\ \A k \in Written :
        LET x == sampled[k].val.x
            y == sampled[k].val.y
            c == buffer.cells[k]
        IN  IF \/ 2 * y < PadT
               \/ 2 * y >= LogicalHeight - PadB
               \/ x < PadL
               \/ x >= Cols - PadR
            THEN /\ sampled[k].val.top = None
                 /\ sampled[k].val.bot = None
                 /\ c.upper_block = None
                 /\ c.lower_block = None
            ELSE /\ sampled[k].val.top = ImagePixel(x - PadL, 2 * y - PadT)
                 /\ sampled[k].val.bot = ImagePixel(x - PadL, 2 * y + 1 - PadT)
                 /\ c.upper_block =
                       pixel_to_cell_color(ImagePixel(x - PadL, 2 * y - PadT))
                 /\ c.lower_block =
                       pixel_to_cell_color(ImagePixel(x - PadL, 2 * y + 1 - PadT))

\* A 4x4 image with padding (2,0,0,0) is painted: row 0 is absent in both
\* halves, row 1 samples image rows 0 and 1.
C8_Witness ==
    /\ pc = "painted"
    /\ img.width = 4 /\ img.height = 4
    /\ padding = Some(<< 2, 0, 0, 0 >>)
    /\ \A x \in 0..3 :
          /\ sampled[x + 1].val.top = None
          /\ sampled[x + 1].val.bot = None
          /\ sampled[4 + x + 1].val.top = ImagePixel(x, 0)
          /\ sampled[4 + x + 1].val.bot = ImagePixel(x, 1)

\* The cell halves that sampled image pixel (i, j).
SamplersOf(i, j) ==
    { << k, "upper" >> : k \in { n \in Written :
          /\ sampled[n].val.top.some
          /\ sampled[n].val.top.val.x = i
          /\ sampled[n].val.top.val.y = j } }
    \cup
    { << k, "lower" >> : k \in { n \in Written :
          /\ sampled[n].val.bot.some
          /\ sampled[n].val.bot.val.x = i
          /\ sampled[n].val.bot.val.y = j } }

\* The one cell half the claim names for image pixel (i, j).
NamedHalf(i, j) ==
    << ((j + PadT) \div 2) * Cols + (i + PadL) + 1,
       IF (j + PadT) % 2 = 0 THEN "upper" ELSE "lower" >>

\* C10 as stated: when the logical height is even, every image pixel (i, j)
\* is sampled by exactly one cell half, the upper or lower half of cell
\* (i+l, floor((j+t)/2)), for odd as well as even top padding.
C10_NoPixelDropped ==
    (pc = "painted" /\ LogicalHeight % 2 = 0) =>
        \A i \in 0..(img.width - 1), j \in 0..(img.height - 1) :
            SamplersOf(i, j) = { NamedHalf(i, j) }

\* C10 amended: when the logical height is even, every image pixel (i, j)
\* with j >= 1, and with j = 0 when the top padding is even, is sampled by
\* exactly that one cell half; when the top padding is odd, image row 0 is
\* sampled by no cell half.
C10_RowZeroDroppedWhenTopOdd ==
    (pc = "painted" /\ LogicalHeight % 2 = 0) =>
        \A i \in 0..(img.width - 1), j \in 0..(img.height - 1) :
            IF j = 0 /\ PadT % 2 = 1
            THEN SamplersOf(i, j) = { }
            ELSE SamplersOf(i, j) = { NamedHalf(i, j) }

\* A 3x3 image with padding (1,0,2,1), odd top and even logical height, is
\* painted: image row 0 is not sampled, row 1 is sampled by the upper halves
\* of cell row 1.
C10_Witness ==
    /\ pc = "painted"
    /\ img.width = 3 /\ img.height = 3
    /\ padding = Some(<< 1, 0, 2, 1 >>)
    /\ SamplersOf(0, 0) = { }
    /\ SamplersOf(0, 1) = { << 4 + 1 + 1, "upper" >> }

(***************************************************************************)
(* scale_image.  A scale factor is a fraction num/den with den a power of  *)
(* two, so that it and its products with the small dimensions used here    *)
(* are exact in f32.                                                       *)
(***************************************************************************)
Factors ==
    { [num |-> 1, den |-> 4], [num |-> 1, den |-> 2], [num |-> 3, den |-> 4],
      [num |-> 1, den |-> 1], [num |-> 3, den |-> 2], [num |-> 2, den |-> 1] }

\* (dim as f32 * scale) as u32: the cast truncates toward zero.
scaled_dim(dim, f) == (dim * f.num) \div f.den

\* round() of the non-negative fraction n/d: halves go away from zero.
RoundDiv(n, d) == ((2 * n) + d) \div (2 * d)

\* The size image::DynamicImage::resize gives an image of width x height
\* asked to fit nwidth x nheight: the aspect ratio is kept, the smaller of
\* the two ratios scales both sides, and neither side goes below 1.
resize_dimensions(width, height, nwidth, nheight) ==
    IF nwidth * height <= nheight * width
    THEN [width  |-> Max(RoundDiv(width * nwidth, width), 1),
          height |-> Max(RoundDiv(height * nwidth, width), 1)]
    ELSE [width  |-> Max(RoundDiv(width * nheight, height), 1),
          height |-> Max(RoundDiv(height * nheight, height), 1)]

\* The pixels of the result come from the CatmullRom filter; only the size
\* of the result is modelled, the pixel pattern is carried over.
scale_image(image, f) ==
    LET nwidth  == scaled_dim(image.width, f)
        nheight == scaled_dim(image.height, f)
        size    == resize_dimensions(image.width, image.height, nwidth, nheight)
    IN  [width |-> size.width, height |-> size.height, phase |-> image.phase]

InitScale ==
    /\ pc = "scale_image"
    /\ img \in Images
    /\ scale \in { Some(f) : f \in Factors }
    /\ scaled = None
    /\ padding = None
    /\ buffer = None
    /\ cur = << 0, 0 >>
    /\ sampled = << >>
    /\ writes = << >>
    /\ fault = FALSE
    /\ IdlePad /\ IdleMain

ScaleImage ==
    /\ pc = "scale_image"
    /\ scaled' = Some(scale_image(img, scale.val))
    /\ pc' = "scaled"
    /\ UNCHANGED << scale, drawVars, padVars, mainVars >>

NextScale == ScaleImage

SpecScale == InitScale /\ [][NextScale]_vars

\* C7: scale_image returns an image of width trunc(W*f) and height
\* trunc(H*f), each rounded toward zero on its own, no minimum substituted
\* and no adjustment to the other dimension; f = 1.0 returns W by H.
C7_TruncatedDimensions ==
    pc = "scaled" =>
        /\ scaled.val.width = (img.width * scale.val.num) \div scale.val.den
        /\ scaled.val.height = (img.height * scale.val.num) \div scale.val.den

(***************************************************************************)
(* main                                                                    *)
(***************************************************************************)
MaxPaths == 3

PathKinds == { "image", "not_utf8", "missing", "corrupt" }

PathNames == << "a.png", "b.png", "c.png", "d.png", "e.png" >>

\* The i-th command-line path: its text, and what the file system holds.
PathAt(i, kind) ==
    [name |-> PathNames[i], kind |-> kind,
     image |-> [width |-> i + 1, height |-> 4, phase |-> i % 2]]

PathLists ==
    UNION { { [i \in 1..n |-> PathAt(i, kinds[i])] : kinds \in [1..n -> PathKinds] } :
            n \in 0..MaxPaths }

\* Path::to_str: None when the path is not valid UTF-8.
to_str(path) == IF path.kind = "not_utf8" THEN None ELSE Some(path.name)

\* get_image: the decoded image, or an error message (a list of the
\* fragments the message is formatted from).
get_image(path) ==
    IF ~to_str(path).some THEN Err(<< "Invalid characters in path" >>)
    ELSE LET file == to_str(path).val
         IN  IF path.kind = "missing"
                 THEN Err(<< "Invalid image path: ", file >>)
             ELSE IF path.kind = "corrupt"
                 THEN Err(<< "Failed to decode image: ", file >>)
             ELSE Ok(path.image)

\* draw as a function: the buffer handed to buffer.draw().
draw_buffer(image, p) ==
    LET width  == canvas_width(image, p)
        height == canvas_height(image, p)
    IN  [width |-> width,
         cells |->
            [k \in 1..(width * (height \div 2)) |->
                LET x    == (k - 1) % width
                    y    == (k - 1) \div width
                    pair == pixel_pair(image, p, x, y, width, height)
                IN  [char |-> Some(" "), char_color |-> None,
                     upper_block |-> pixel_to_cell_color(pair.top),
                     lower_block |-> pixel_to_cell_color(pair.bot)]]]

\* The partition of lines 32-36 has pulled every path.
partition_done_after_first(next, ps) == next > Min(1, Len(ps))

partition_done(next, ps) == next > Len(ps)

\* The images left to the for loop of line 41 after one iteration.
remaining_images_break(imgs) == << >>

remaining_images(imgs) == Tail(imgs)

MainScales == { None, Some([num |-> 1, den |-> 2]) }

MainPaddings == { None, Some(<< 1, 0, 1, 2 >>) }

InitMain ==
    /\ pc = "partition"
    /\ paths \in PathLists
    /\ scale \in MainScales
    /\ padding \in MainPaddings
    /\ images = << >>
    /\ errors = << >>
    /\ next_path = 1
    /\ events = << >>
    /\ stdout = << >>
    /\ scaled = None
    /\ img = None
    /\ buffer = None
    /\ cur = << 0, 0 >>
    /\ sampled = << >>
    /\ writes = << >>
    /\ fault = FALSE
    /\ IdlePad

\* Lines 32-36: the partition pulls the next path through get_image and
\* files the result under images or errors.  src is the index of the path.
MainDecode ==
    /\ pc = "partition"
    /\ ~partition_done(next_path, paths)
    /\ LET r == get_image(paths[next_path])
       IN  IF r.ok
           THEN /\ images' = Append(images, [src |-> next_path, image |-> r.val])
                /\ errors' = errors
           ELSE /\ errors' = Append(errors, [src |-> next_path, msg |-> r.err])
                /\ images' = images
    /\ events' = Append(events, [step |-> "decode", src |-> next_path])
    /\ next_path' = next_path + 1
    /\ UNCHANGED << pc, paths, stdout, scale, scaled, drawVars, padVars >>

\* Lines 38-39: both lists are unwrapped; the render loop starts.
MainPartitioned ==
    /\ pc = "partition"
    /\ partition_done(next_path, paths)
    /\ pc' = "render"
    /\ UNCHANGED << mainVars, scale, scaled, drawVars, padVars >>

\* Lines 41-48: one iteration of the render loop: scale, draw, println.
\* The image is moved into draw and dropped there.
MainRender ==
    /\ pc = "render"
    /\ images # << >>
    /\ LET item  == Head(images)
           image == IF scale.some THEN scale_image(item.image, scale.val)
                    ELSE item.image
       IN  /\ stdout' = stdout \o
                 << [kind |-> "image", src |-> item.src,
                     buffer |-> draw_buffer(image, padding)],
                    [kind |-> "text", text |-> << "\n", "\n" >>] >>
           /\ events' = Append(events, [step |-> "render", src |-> item.src])
    /\ images' = remaining_images(images)
    /\ UNCHANGED << pc, paths, errors, next_path, scale, scaled, drawVars, padVars >>

MainRendered ==
    /\ pc = "render"
    /\ images = << >>
    /\ pc' = "report"
    /\ UNCHANGED << mainVars, scale, scaled, drawVars, padVars >>

\* Lines 50-52: one error is printed on a line of its own.
MainPrintError ==
    /\ pc = "report"
    /\ errors # << >>
    /\ stdout' = Append(stdout, [kind |-> "error", src |-> Head(errors).src,
                                 text |-> Append(Head(errors).msg, "\n")])
    /\ events' = Append(events, [step |-> "error", src |-> Head(errors).src])
    /\ errors' = Tail(errors)
    /\ UNCHANGED << pc, paths, images, next_path, scale, scaled, drawVars, padVars >>

\* Line 54: Ok(()).
MainExit ==
    /\ pc = "report"
    /\ errors = << >>
    /\ pc' = "exit_ok"
    /\ UNCHANGED << mainVars, scale, scaled, drawVars, padVars >>

NextMain ==
    \/ MainDecode
    \/ MainPartitioned
    \/ MainRender
    \/ MainRendered
    \/ MainPrintError
    \/ MainExit

SpecMain == InitMain /\ [][NextMain]_vars

\* The buffer the cell-by-cell loop of draw has filled when it is painted
\* is the buffer main prints.
DrawBufferAgrees ==
    pc = "painted" => buffer = draw_buffer(img, padding)

(***************************************************************************)
(* Claims about main                                                       *)
(***************************************************************************)
Loadable == { i \in 1..Len(paths) : paths[i].kind = "image" }
Failing  == { i \in 1..Len(paths) : paths[i].kind # "image" }

RECURSIVE Ascending(_, _)
\* The members of set S that are at least from, in increasing order.
Ascending(S, from) ==
    IF \A i \in S : i < from THEN << >>
    ELSE LET m == CHOOSE i \in S : i >= from /\ \A j \in S : j >= from => i <= j
         IN  << m >> \o Ascending(S, m + 1)

EventsOf(step) == SelectSeq(events, LAMBDA e : e.step = step)

SrcOf(es) == [k \in 1..Len(es) |-> es[k].src]

\* C5: every loadable image is rendered exactly once and in input order, a
\* failed path never stops a later image, every failed path's error is
\* printed exactly once, and every error line comes after the last render.
C5_BatchResilience ==
    /\ \A a, b \in 1..Len(events) :
          (a < b /\ events[a].step = "error") => events[b].step # "render"
    /\ pc = "exit_ok" =>
          /\ SrcOf(EventsOf("render")) = Ascending(Loadable, 1)
          /\ SrcOf(EventsOf("error")) = Ascending(Failing, 1)
          /\ SrcOf(SelectSeq(stdout, LAMBDA o : o.kind = "image"))
                = Ascending(Loadable, 1)
          /\ SrcOf(SelectSeq(stdout, LAMBDA o : o.kind = "error"))
                = Ascending(Failing, 1)

\* Three paths, the second missing: the first and the third are rendered,
\* then the one error is printed, and main has returned.
C5_Witness ==
    /\ pc = "exit_ok"
    /\ Len(paths) = 3
    /\ paths[1].kind = "image" /\ paths[2].kind = "missing" /\ paths[3].kind = "image"
    /\ SrcOf(SelectSeq(events, LAMBDA e : e.step # "decode")) = << 1, 3, 2 >>

\* C6: every error line printed holds the failing path and a reason, for a
\* path that is not a string, a file that cannot be opened and a file that
\* cannot be decoded.
C6_ErrorLineNamesPath ==
    \A k \in 1..Len(stdout) :
        stdout[k].kind = "error" =>
            /\ \E n \in 1..Len(stdout[k].text) :
                  stdout[k].text[n] = paths[stdout[k].src].name
            /\ \E n \in 1..Len(stdout[k].text) :
                  stdout[k].text[n] \notin { paths[stdout[k].src].name, "\n" }

\* C9 as stated: at most one decoded image is held at any time, and no
\* input is decoded after an earlier one while that one is still unrendered.
C9_OneImageHeld ==
    /\ Len(images) <= 1
    /\ \A a, b \in 1..Len(events) :
          (/\ a < b
           /\ events[a].step = "decode" /\ events[a].src \in Loadable
           /\ events[b].step = "decode") =>
              \E c \in (a + 1)..(b - 1) :
                  events[c] = [step |-> "render", src |-> events[a].src]

\* C9 amended: every input is decoded before any image is rendered, so all
\* loadable images are held at once when the render loop starts; the loop
\* then renders and releases them one per iteration, image i before image
\* i+1.
C9_DecodeAllThenRender ==
    /\ \A a, b \in 1..Len(events) :
          (a < b /\ events[a].step = "render") => events[b].step # "decode"
    /\ pc \in { "render", "report", "exit_ok" } =>
          /\ Len(EventsOf("decode")) = Len(paths)
          /\ Len(images) = Cardinality(Loadable) - Len(EventsOf("render"))
          /\ SrcOf(images)
                = SubSeq(Ascending(Loadable, 1),
                         Len(EventsOf("render")) + 1, Cardinality(Loadable))

\* Three loadable paths: all three images are held when the first render
\* is about to run.
C9_Witness ==
    /\ pc = "render"
    /\ Len(paths) = 3
    /\ Len(images) = 3
    /\ EventsOf("render") = << >>

=============================================================================
